---- MODULE Spec2Model ----
(***************************************************************************)
(* A model of the streaming brainfuck interpreter BfInterpreter: the Run   *)
(* loop, its command cache, the loop stack and the eight command handlers. *)
(* The engine is the record bf (the fields of the Go struct); commands is  *)
(* the prefix of the program the forward-only reader has delivered so far. *)
(***************************************************************************)
EXTENDS Integers, Sequences, FiniteSets, TLC

VARIABLES
    bf,         \* the BfInterpreter: Data, CmdPtr, DataPtr, Input, Output,
                \* loopStack, cmdCache, opMap, currentLoopEnd
    commands,   \* the bytes the commands reader has delivered so far
    cmd,        \* Run's local cmd: the command of the last iteration
    ok,         \* Run's local ok of the cache lookup of the last iteration
    ret,        \* what Run returned, once it has returned
    steps,      \* iterations of Run's loop so far
    avail,      \* bytes the commands readers can still deliver
    runs,       \* calls of Run on this engine so far, this one included
    cancelled,  \* whether the caller has raised its cancellation signal
    peer,       \* a second engine, built by its own call of New, and its Run
    stk         \* a stack.Stack under test, with the record of its calls

vars == <<bf, commands, cmd, ok, ret, steps, avail, runs, cancelled, peer, stk>>

\* what a step of the engine bf does not touch
others == <<cancelled, peer, stk>>

----------------------------------------------------------------------------
(* Bounds of the model *)

\* longest program the reader delivers before it reports io.EOF
MaxProgLen == 5
\* bytes the readers deliver, all Runs together, when Run is called again
MaxRerunLen == 3
\* most calls of Run on one engine
MaxRuns == 3
\* longest program run on an engine of the default size
MaxDefaultLen == 2
\* bytes the readers deliver to an engine whose commands are overloaded
MaxCmdLen == 4
\* longest program of one `,` followed by `+` and `-`
MaxWrapLen == 7
\* longest program of `+`, `-`, `[`, `]` and bytes without handler
MaxLoopLen == 7
\* dataSize given to New
MemSize == 2
\* most iterations of Run's loop that are explored
MaxSteps == 14
\* the input reader returns values 0..MaxInput
MaxInput == 1

----------------------------------------------------------------------------
(* Types and constants of the package *)

\* DataType is instantiated with int8, the narrowest constraints.Signed type
CellBits == 8

DefaultDataSize == 4096

CmdShiftRight == ">"
CmdShiftLeft == "<"
CmdPlus == "+"
CmdMinus == "-"
CmdOut == "."
CmdIn == ","
CmdStartLoop == "["
CmdEndLoop == "]"

\* a byte with no handler: '\r', '\n', a blank, comment text
CmdUnknown == " "

\* a byte outside the baseline that the caller registers with WithCmd
CmdCustom == "x"

Baseline ==
    {CmdShiftRight, CmdShiftLeft, CmdPlus, CmdMinus, CmdOut, CmdIn,
     CmdStartLoop, CmdEndLoop}

Alphabet == Baseline \cup {CmdUnknown}

\* the least and the greatest value of a cell
CellMin == -(2 ^ (CellBits - 1))

CellMax == 2 ^ (CellBits - 1) - 1

\* arithmetic that stops at the limits of the type
Wrap_Saturate(v) == IF v > CellMax THEN CellMax ELSE IF v < CellMin THEN CellMin ELSE v

\* the native wraparound of the signed cell type
Wrap(v) == ((v + 2 ^ (CellBits - 1)) % (2 ^ CellBits)) - 2 ^ (CellBits - 1)

\* An error value: its message, the command pointer the message names (a
\* sequence of none or one), and the message and pointer of the error it wraps.
Error(msg, at, cause) ==
    [msg |-> msg, cmd |-> at, cause |-> cause.msg, causeCmd |-> cause.cmd]

NoErr == [msg |-> "", cmd |-> <<>>, cause |-> "", causeCmd |-> <<>>]

LeafError(msg, at) == [msg |-> msg, cmd |-> at, cause |-> "", causeCmd |-> <<>>]

MsgShiftRight == "shift+ moves out of boundary"
MsgShiftLeft == "shift- moves out of boundary"
MsgWrite == "failed to write value"
MsgRead == "failed to read value"
MsgStackEmpty == "stack is empty on closing loop"
MsgReadCommand == "failed to read command"
MsgProcess == "failed to process"

----------------------------------------------------------------------------
(* stack.Stack: the front of the list is the head of the sequence *)

BuildStack == <<>>

\* Push that puts the value at the back of the list
Push_Back(s, v) == s \o <<v>>

Push(s, v) == <<v>> \o s

Pop(s) == IF s = <<>> THEN s ELSE Tail(s)

\* Get returns nil on an empty stack; HasTop tells the two cases apart
HasTop(s) == s # <<>>

Get(s) == Head(s)

StackLen(s) == Len(s)

\* Get and Pop that return a pointer to a zero value on an empty stack
Front_Zero(s) == IF HasTop(s) THEN <<Get(s)>> ELSE <<0>>

\* the *T that Get and Pop return: nil is <<>>, a pointer to v is <<v>>
Front(s) == IF HasTop(s) THEN <<Get(s)>> ELSE <<>>

\* the loop of BuildStack from index i down to the first value
RECURSIVE PushDown(_, _, _)
PushDown(s, values, i) ==
    IF i < 1 THEN s ELSE PushDown(Push(s, values[i]), values, i - 1)

\* the loop of a BuildStack that walks its values from the first to the last
RECURSIVE PushUp(_, _, _)
PushUp(s, values, i) ==
    IF i > Len(values) THEN s ELSE PushUp(Push(s, values[i]), values, i + 1)

\* BuildStack that pushes its values in the order they are given
BuildStackOf_Forward(values) == PushUp(BuildStack, values, 1)

\* BuildStack(values...): the values are pushed from the last to the first
BuildStackOf(values) == PushDown(BuildStack, values, Len(values))

\* the comparisons handed to Equals: *a == *b, and *a <= *b
Comparisons == {"eq", "le"}

Cmp(cmp, a, b) == IF cmp = "eq" THEN a = b ELSE a <= b

\* the loop of Equals: sE walks s, sV walks v, both from the front
RECURSIVE EqualsLoop(_, _, _)
EqualsLoop(s, v, cmp) ==
    IF s = <<>> THEN TRUE
    ELSE IF v = <<>> THEN FALSE
    ELSE IF ~Cmp(cmp, Head(s), Head(v)) THEN FALSE
    ELSE EqualsLoop(Tail(s), Tail(v), cmp)

\* Equals without its test of the two lengths
Equals_NoLen(s, v, cmp) == EqualsLoop(s, v, cmp)

Equals(s, v, cmp) ==
    IF StackLen(s) # StackLen(v) THEN FALSE ELSE EqualsLoop(s, v, cmp)

----------------------------------------------------------------------------
(* CmdCache: a Go map, which may be nil *)

NilCache == [nil |-> TRUE, m |-> <<>>]

MakeCache == [nil |-> FALSE, m |-> <<>>]

CachePut(c, p, b) == [c EXCEPT !.m = (p :> b) @@ c.m]

CacheHas(c, p) == (~c.nil) /\ p \in DOMAIN c.m

----------------------------------------------------------------------------
(* New *)

opMapNew ==
    (CmdShiftRight :> "opShiftRight") @@ (CmdShiftLeft :> "opShiftLeft") @@
    (CmdPlus :> "opPlus") @@ (CmdMinus :> "opMinus") @@
    (CmdOut :> "opOut") @@ (CmdIn :> "opIn") @@
    (CmdStartLoop :> "opStartLoop") @@ (CmdEndLoop :> "opEndLoop")

New(dataSize) ==
    [Data |-> [i \in 0 .. (IF dataSize = 0 THEN DefaultDataSize ELSE dataSize) - 1 |-> 0],
     CmdPtr |-> 0,
     DataPtr |-> 0,
     Input |-> <<>>,
     Output |-> <<>>,
     loopStack |-> BuildStack,
     cmdCache |-> NilCache,
     opMap |-> opMapNew,
     currentLoopEnd |-> 0]

----------------------------------------------------------------------------
(* The command handlers.  Each returns the engine as the handler leaves it *)
(* and the error it returns.                                               *)

Done(b, e) == [bf |-> b, err |-> e]

DataLen(b) == Cardinality(DOMAIN b.Data)

\* opShiftRight with its check one cell too far
opShiftRight_OffByOne(b) ==
    IF b.DataPtr > DataLen(b) - 1
    THEN Done(b, LeafError(MsgShiftRight, <<>>))
    ELSE Done([b EXCEPT !.DataPtr = @ + 1], NoErr)

opShiftRight(b) ==
    IF b.DataPtr >= DataLen(b) - 1
    THEN Done(b, LeafError(MsgShiftRight, <<>>))
    ELSE Done([b EXCEPT !.DataPtr = @ + 1], NoErr)

\* opShiftLeft that moves the other way
opShiftLeft_Right(b) ==
    IF b.DataPtr <= 0
    THEN Done(b, LeafError(MsgShiftLeft, <<>>))
    ELSE Done([b EXCEPT !.DataPtr = @ + 1], NoErr)

\* opShiftLeft without its check of the boundary
opShiftLeft_NoCheck(b) == Done([b EXCEPT !.DataPtr = @ - 1], NoErr)

opShiftLeft(b) ==
    IF b.DataPtr <= 0
    THEN Done(b, LeafError(MsgShiftLeft, <<>>))
    ELSE Done([b EXCEPT !.DataPtr = @ - 1], NoErr)

\* opPlus that adds to every cell
opPlus_AllCells(b) ==
    Done([b EXCEPT !.Data = [i \in DOMAIN b.Data |-> Wrap(b.Data[i] + 1)]], NoErr)

opPlus(b) == Done([b EXCEPT !.Data[b.DataPtr] = Wrap(@ + 1)], NoErr)

opMinus(b) == Done([b EXCEPT !.Data[b.DataPtr] = Wrap(@ - 1)], NoErr)

\* opOut that writes the value twice
opOut_Twice(b, werr) ==
    IF werr
    THEN Done(b, LeafError(MsgWrite, <<>>))
    ELSE Done([b EXCEPT !.Output = Append(Append(@, b.Data[b.DataPtr]),
                                          b.Data[b.DataPtr])], NoErr)

\* werr: whether Output.Write fails
opOut(b, werr) ==
    IF werr
    THEN Done(b, LeafError(MsgWrite, <<>>))
    ELSE Done([b EXCEPT !.Output = Append(@, b.Data[b.DataPtr])], NoErr)

\* opIn that stores what Input.Read returned also when it failed
opIn_StoreOnError(b, rn, rerr) ==
    IF rerr
    THEN Done([b EXCEPT !.Data[b.DataPtr] = rn], LeafError(MsgRead, <<>>))
    ELSE Done([b EXCEPT !.Input = Append(@, rn), !.Data[b.DataPtr] = rn], NoErr)

\* rn, rerr: what Input.Read returns
opIn(b, rn, rerr) ==
    IF rerr
    THEN Done(b, LeafError(MsgRead, <<>>))
    ELSE Done([b EXCEPT !.Input = Append(@, rn), !.Data[b.DataPtr] = rn], NoErr)

\* opStartLoop that empties the loop stack when it leaves a loop
opStartLoop_PopAll(b) ==
    IF b.Data[b.DataPtr] # 0
    THEN Done(IF (~HasTop(b.loopStack)) \/ Get(b.loopStack) # b.CmdPtr
              THEN [b EXCEPT !.loopStack = Push(@, b.CmdPtr)]
              ELSE b, NoErr)
    ELSE Done([b EXCEPT !.loopStack = BuildStack,
                        !.CmdPtr = b.currentLoopEnd], NoErr)

opStartLoop(b) ==
    LET pushed ==
            IF (~HasTop(b.loopStack)) \/ Get(b.loopStack) # b.CmdPtr
            THEN [b EXCEPT !.loopStack = Push(@, b.CmdPtr)]
            ELSE b
    IN  IF pushed.Data[pushed.DataPtr] # 0
        THEN Done(pushed, NoErr)
        ELSE Done([pushed EXCEPT !.loopStack = Pop(@),
                                 !.CmdPtr = pushed.currentLoopEnd], NoErr)

\* opEndLoop that goes back to the loop start itself, not one before it
opEndLoop_PastStart(b) ==
    IF ~HasTop(b.loopStack)
    THEN Done(b, LeafError(MsgStackEmpty, <<b.CmdPtr>>))
    ELSE Done([b EXCEPT !.currentLoopEnd = b.CmdPtr,
                        !.CmdPtr = Get(b.loopStack)], NoErr)

\* opEndLoop without its check of the empty stack
opEndLoop_NoCheck(b) ==
    IF ~HasTop(b.loopStack)
    THEN Done([b EXCEPT !.currentLoopEnd = b.CmdPtr], NoErr)
    ELSE Done([b EXCEPT !.currentLoopEnd = b.CmdPtr,
                        !.CmdPtr = Get(b.loopStack) - 1], NoErr)

opEndLoop(b) ==
    IF ~HasTop(b.loopStack)
    THEN Done(b, LeafError(MsgStackEmpty, <<b.CmdPtr>>))
    ELSE Done([b EXCEPT !.currentLoopEnd = b.CmdPtr,
                        !.CmdPtr = Get(b.loopStack) - 1], NoErr)

\* the handler of the test CustomOp: it squares the cell at the data pointer
opCustom(b) == Done([b EXCEPT !.Data[b.DataPtr] = Wrap(@ * @)], NoErr)

\* a handler that uses its access to both pointers: it moves the data pointer
\* to the first cell and passes over the next command
opHome(b) == Done([b EXCEPT !.DataPtr = 0, !.CmdPtr = @ + 1], NoErr)

\* the handlers a caller registers
Handlers == {"opCustom", "opHome"}

\* what the environment does in one call: the value and error of Input.Read
\* and the error of Output.Write
Env(rn, rerr, werr) == [rn |-> rn, rerr |-> rerr, werr |-> werr]

NoEnv == Env(0, FALSE, FALSE)

\* opFunc(bf) for the handler registered under a name
Call(h, b, env) ==
    CASE h = "opShiftRight" -> opShiftRight(b)
      [] h = "opShiftLeft" -> opShiftLeft(b)
      [] h = "opPlus" -> opPlus(b)
      [] h = "opMinus" -> opMinus(b)
      [] h = "opOut" -> opOut(b, env.werr)
      [] h = "opIn" -> opIn(b, env.rn, env.rerr)
      [] h = "opStartLoop" -> opStartLoop(b)
      [] h = "opEndLoop" -> opEndLoop(b)
      [] h = "opCustom" -> opCustom(b)
      [] h = "opHome" -> opHome(b)

----------------------------------------------------------------------------
(* WithCmd *)

\* WithCmd that registers under every byte
WithCmd_AnyByte(b, c, h) == [b EXCEPT !.opMap = (c :> h) @@ @]

WithCmd(b, c, h) ==
    IF c # CmdStartLoop /\ c # CmdEndLoop
    THEN [b EXCEPT !.opMap = (c :> h) @@ @]
    ELSE b

----------------------------------------------------------------------------
(* Run: one iteration of its loop, from the lookup of the handler on *)

StartCache(b, c) ==
    IF c = CmdStartLoop /\ b.cmdCache.nil
    THEN [b EXCEPT !.cmdCache = CachePut(MakeCache, b.CmdPtr, c)]
    ELSE b

\* a cache that keeps only the eight commands of the language
CacheInLoop_BaselineOnly(b, c) ==
    IF StackLen(b.loopStack) > 0 /\ (~b.cmdCache.nil) /\ c \in Baseline
    THEN [b EXCEPT !.cmdCache = CachePut(@, b.CmdPtr, c)]
    ELSE b

CacheInLoop(b, c) ==
    IF StackLen(b.loopStack) > 0 /\ ~b.cmdCache.nil
    THEN [b EXCEPT !.cmdCache = CachePut(@, b.CmdPtr, c)]
    ELSE b

\* Run keeping the cache after the topmost loop is finished
DropCache_Never(b) == b

DropCache(b) ==
    IF StackLen(b.loopStack) = 0
    THEN [b EXCEPT !.cmdCache = NilCache]
    ELSE b

\* Run that does not advance past a byte without a handler
Dispatch_StayOnUnknown(b, c, env) ==
    IF c \notin DOMAIN b.opMap
    THEN Done(b, NoErr)
    ELSE LET r == Call(b.opMap[c], CacheInLoop(StartCache(b, c), c), env)
         IN  IF r.err # NoErr
             THEN Done(r.bf, Error(MsgProcess, <<r.bf.CmdPtr>>, r.err))
             ELSE Done([DropCache(r.bf) EXCEPT !.CmdPtr = @ + 1], NoErr)

Dispatch(b, c, env) ==
    IF c \notin DOMAIN b.opMap
    THEN Done([b EXCEPT !.CmdPtr = @ + 1], NoErr)
    ELSE LET r == Call(b.opMap[c], CacheInLoop(StartCache(b, c), c), env)
         IN  IF r.err # NoErr
             THEN Done(r.bf, Error(MsgProcess, <<r.bf.CmdPtr>>, r.err))
             ELSE Done([DropCache(r.bf) EXCEPT !.CmdPtr = @ + 1], NoErr)

----------------------------------------------------------------------------
(* The state machine *)

Running == [state |-> "running", hasData |-> FALSE, data |-> <<>>, err |-> NoErr]

\* a return of (nil, nil)
ReturnData_Nil(d) == [state |-> "ok", hasData |-> FALSE, data |-> <<>>, err |-> NoErr]

ReturnData(d) == [state |-> "ok", hasData |-> TRUE, data |-> d, err |-> NoErr]

ReturnErr(e) == [state |-> "error", hasData |-> FALSE, data |-> <<>>, err |-> e]

\* no second engine, no stack under test
NoPeer == <<>>

NoStack == <<>>

\* the engine as New(dataSize, ...) leaves it, and Run's first two
\* assignments; the reader holds a program of at most n bytes
StartWith(dataSize, n) ==
    /\ bf = [New(dataSize) EXCEPT !.CmdPtr = 0, !.DataPtr = 0]
    /\ commands = <<>>
    /\ cmd = CmdUnknown
    /\ ok = FALSE
    /\ ret = Running
    /\ steps = 0
    /\ avail = n
    /\ runs = 1
    /\ cancelled = FALSE
    /\ peer = NoPeer
    /\ stk = NoStack

Start(n) == StartWith(MemSize, n)

Init == Start(MaxProgLen)

\* a loop that goes on after an error
CanStep_AfterError == ret.state # "ok" /\ steps < MaxSteps

CanStep == ret.state = "running" /\ steps < MaxSteps

Hit == CacheHas(bf.cmdCache, bf.CmdPtr)

\* the command c is served from the cache, or the reader delivers it
Fetch(c) ==
    \/ /\ Hit
       /\ bf.cmdCache.m[bf.CmdPtr] = c
       /\ ok' = TRUE
       /\ commands' = commands
       /\ avail' = avail
    \/ /\ ~Hit
       /\ avail > 0
       /\ ok' = FALSE
       /\ commands' = Append(commands, c)
       /\ avail' = avail - 1

Iterate(c, env) ==
    /\ Fetch(c)
    /\ cmd' = c
    /\ steps' = steps + 1
    /\ runs' = runs
    /\ UNCHANGED others
    /\ LET r == Dispatch(bf, c, env)
       IN  /\ bf' = r.bf
           /\ ret' = IF r.err # NoErr THEN ReturnErr(r.err) ELSE ret

ShiftRight ==
    /\ CanStep
    /\ Iterate(CmdShiftRight, NoEnv)

ShiftLeft ==
    /\ CanStep
    /\ Iterate(CmdShiftLeft, NoEnv)

Plus ==
    /\ CanStep
    /\ Iterate(CmdPlus, NoEnv)

Minus ==
    /\ CanStep
    /\ Iterate(CmdMinus, NoEnv)

Out ==
    /\ CanStep
    /\ \E werr \in BOOLEAN : Iterate(CmdOut, Env(0, FALSE, werr))

In ==
    /\ CanStep
    /\ \/ \E rn \in 0 .. MaxInput : Iterate(CmdIn, Env(rn, FALSE, FALSE))
       \/ Iterate(CmdIn, Env(0, TRUE, FALSE))

StartLoop ==
    /\ CanStep
    /\ Iterate(CmdStartLoop, NoEnv)

EndLoop ==
    /\ CanStep
    /\ Iterate(CmdEndLoop, NoEnv)

Unknown ==
    /\ CanStep
    /\ Iterate(CmdUnknown, NoEnv)

\* the reader reports io.EOF
ReadEOF ==
    /\ CanStep
    /\ ~Hit
    /\ ok' = FALSE
    /\ ret' = ReturnData(bf.Data)
    /\ steps' = steps + 1
    /\ UNCHANGED <<bf, commands, cmd, avail, runs, others>>

\* the reader fails with another error
ReadFail ==
    /\ CanStep
    /\ ~Hit
    /\ ok' = FALSE
    /\ ret' = ReturnErr(Error(MsgReadCommand, <<>>, LeafError("read error", <<>>)))
    /\ steps' = steps + 1
    /\ UNCHANGED <<bf, commands, cmd, avail, runs, others>>

Next ==
    \/ ShiftRight
    \/ ShiftLeft
    \/ Plus
    \/ Minus
    \/ Out
    \/ In
    \/ StartLoop
    \/ EndLoop
    \/ Unknown
    \/ ReadEOF
    \/ ReadFail

Spec == Init /\ [][Next]_vars

----------------------------------------------------------------------------
(* The engines New builds: of the size asked for, or of the default size   *)
(* when the size asked for is 0.                                           *)

InitSizes ==
    \/ Start(MaxProgLen)
    \/ StartWith(0, MaxDefaultLen)

SpecSizes == InitSizes /\ [][Next]_vars

----------------------------------------------------------------------------
(* Cells of every value: programs that read one value into the first cell  *)
(* and then add and subtract, delivered by a reader that does not fail.    *)

\* `,` as the first command; Input.Read returns any value of the cell type
ReadCell ==
    /\ CanStep
    /\ steps = 0
    /\ \E rn \in CellMin .. CellMax : Iterate(CmdIn, Env(rn, FALSE, FALSE))

InitWrap == Start(MaxWrapLen)

NextWrap ==
    \/ ReadCell
    \/ Plus
    \/ Minus
    \/ ReadEOF

SpecWrap == InitWrap /\ [][NextWrap]_vars

----------------------------------------------------------------------------
(* Run called again on the same engine with a new commands reader, after   *)
(* the previous Run has returned: Run's first two assignments are all that *)
(* it resets.                                                              *)

\* a Run that starts by clearing the memory
RunAgain_ClearsData ==
    /\ ret.state # "running"
    /\ runs < MaxRuns
    /\ bf' = [bf EXCEPT !.CmdPtr = 0, !.DataPtr = 0,
                        !.Data = [i \in DOMAIN bf.Data |-> 0]]
    /\ commands' = <<>>
    /\ cmd' = CmdUnknown
    /\ ok' = FALSE
    /\ ret' = Running
    /\ steps' = 0
    /\ runs' = runs + 1
    /\ avail' = avail
    /\ UNCHANGED others

RunAgain ==
    /\ ret.state # "running"
    /\ runs < MaxRuns
    /\ bf' = [bf EXCEPT !.CmdPtr = 0, !.DataPtr = 0]
    /\ commands' = <<>>
    /\ cmd' = CmdUnknown
    /\ ok' = FALSE
    /\ ret' = Running
    /\ steps' = 0
    /\ runs' = runs + 1
    /\ avail' = avail
    /\ UNCHANGED others

InitRerun == Start(MaxRerunLen)

NextRerun ==
    \/ Next
    \/ RunAgain

SpecRerun == InitRerun /\ [][NextRerun]_vars

----------------------------------------------------------------------------
(* An engine on which the caller overloads commands with WithCmd before it *)
(* calls Run, and between two calls of Run.                                *)

\* Run has not been called yet
NotCalled == [state |-> "new", hasData |-> FALSE, data |-> <<>>, err |-> NoErr]

\* the bytes the caller registers handlers under, or tries to
WithCmdBytes == {CmdCustom, CmdPlus, CmdStartLoop, CmdEndLoop}

CallWithCmd ==
    /\ ret.state # "running"
    /\ \E c \in WithCmdBytes, h \in Handlers : bf' = WithCmd(bf, c, h)
    /\ UNCHANGED <<commands, cmd, ok, ret, steps, avail, runs, others>>

Custom ==
    /\ CanStep
    /\ Iterate(CmdCustom, NoEnv)

InitCmd ==
    /\ bf = New(MemSize)
    /\ commands = <<>>
    /\ cmd = CmdUnknown
    /\ ok = FALSE
    /\ ret = NotCalled
    /\ steps = 0
    /\ avail = MaxCmdLen
    /\ runs = 0
    /\ cancelled = FALSE
    /\ peer = NoPeer
    /\ stk = NoStack

NextCmd ==
    \/ ShiftRight
    \/ Plus
    \/ StartLoop
    \/ EndLoop
    \/ Custom
    \/ ReadEOF
    \/ CallWithCmd
    \/ RunAgain

SpecCmd == InitCmd /\ [][NextCmd]_vars

----------------------------------------------------------------------------
(* Run as a function of the whole program: the engine b after n bytes of   *)
(* prog were delivered, run to its return.  log replays the input and      *)
(* output capabilities of a recorded run.                                  *)

\* the capabilities of a recorded run: the values Input.Read returned, and
\* whether the run ended on a failing Input.Read or Output.Write
Replay(b, r) ==
    [inputs |-> b.Input,
     nOut |-> Len(b.Output),
     werr |-> r.err.cause = MsgWrite]

EnvAt(b, log) ==
    Env(IF Len(b.Input) < Len(log.inputs) THEN log.inputs[Len(b.Input) + 1] ELSE 0,
        Len(b.Input) >= Len(log.inputs),
        log.werr /\ Len(b.Output) = log.nOut)

RECURSIVE RunFrom(_, _, _, _, _)
RunFrom(b, prog, n, log, fuel) ==
    LET hit == CacheHas(b.cmdCache, b.CmdPtr)
    IN  IF fuel = 0
        THEN [state |-> "fuel", bf |-> b]
        ELSE IF (~hit) /\ n >= Len(prog)
        THEN [state |-> "ok", bf |-> b]
        ELSE LET c == IF hit THEN b.cmdCache.m[b.CmdPtr] ELSE prog[n + 1]
                 r == Dispatch(b, c, EnvAt(b, log))
             IN  IF r.err # NoErr
                 THEN [state |-> "error", bf |-> r.bf]
                 ELSE RunFrom(r.bf, prog, IF hit THEN n ELSE n + 1, log, fuel - 1)

RunProgram(prog, log, fuel) ==
    RunFrom([New(MemSize) EXCEPT !.CmdPtr = 0, !.DataPtr = 0], prog, 0, log, fuel)

----------------------------------------------------------------------------
(* Programs: bracket structure.  Positions count from 0, as CmdPtr does.   *)

ByteAt(prog, p) == prog[p + 1]

InProg(prog, p) == p >= 0 /\ p < Len(prog)

\* leftwards from p, with d closing brackets still to be matched
RECURSIVE ScanOpen(_, _, _)
ScanOpen(prog, p, d) ==
    IF p < 0 THEN -1
    ELSE IF ByteAt(prog, p) = CmdEndLoop THEN ScanOpen(prog, p - 1, d + 1)
    ELSE IF ByteAt(prog, p) = CmdStartLoop
         THEN IF d = 0 THEN p ELSE ScanOpen(prog, p - 1, d - 1)
    ELSE ScanOpen(prog, p - 1, d)

\* the position of the `[` that the `]` at position pe closes, or -1
MatchOpen(prog, pe) == ScanOpen(prog, pe - 1, 0)

RECURSIVE ScanClose(_, _, _)
ScanClose(prog, p, d) ==
    IF p >= Len(prog) THEN -1
    ELSE IF ByteAt(prog, p) = CmdStartLoop THEN ScanClose(prog, p + 1, d + 1)
    ELSE IF ByteAt(prog, p) = CmdEndLoop
         THEN IF d = 0 THEN p ELSE ScanClose(prog, p + 1, d - 1)
    ELSE ScanClose(prog, p + 1, d)

\* the position of the `]` that closes the `[` at position ps, or -1
MatchClose(prog, ps) == ScanClose(prog, ps + 1, 0)

\* the `[` before position p that are not closed before p
OpenBefore(prog, p) ==
    {q \in 0 .. p - 1 :
        /\ InProg(prog, q)
        /\ ByteAt(prog, q) = CmdStartLoop
        /\ LET e == MatchClose(prog, q) IN e = -1 \/ e >= p}

\* every `]` closes a `[` and every `[` is closed
WellNested(prog) ==
    \A p \in 0 .. Len(prog) - 1 :
        /\ ByteAt(prog, p) = CmdEndLoop => MatchOpen(prog, p) # -1
        /\ ByteAt(prog, p) = CmdStartLoop => MatchClose(prog, p) # -1

\* no `]` without a `[` before it
NoStrayClose(prog) ==
    \A p \in 0 .. Len(prog) - 1 :
        ByteAt(prog, p) = CmdEndLoop => MatchOpen(prog, p) # -1

\* the program without the bytes that have no handler
Strip(prog) == SelectSeq(prog, LAMBDA c : c \in Baseline)

----------------------------------------------------------------------------
(* The reference interpreter: random access to the whole program, loops    *)
(* by bracket matching.                                                    *)

RefInit ==
    [pc |-> 0, Data |-> [i \in 0 .. MemSize - 1 |-> 0], DataPtr |-> 0,
     Input |-> <<>>, Output |-> <<>>]

RefStep(prog, s, env) ==
    LET c == ByteAt(prog, s.pc)
        next == [s EXCEPT !.pc = @ + 1]
    IN  CASE c = CmdShiftRight ->
                IF s.DataPtr >= MemSize - 1 THEN [state |-> "error", s |-> s]
                ELSE [state |-> "run", s |-> [next EXCEPT !.DataPtr = @ + 1]]
          [] c = CmdShiftLeft ->
                IF s.DataPtr <= 0 THEN [state |-> "error", s |-> s]
                ELSE [state |-> "run", s |-> [next EXCEPT !.DataPtr = @ - 1]]
          [] c = CmdPlus ->
                [state |-> "run", s |-> [next EXCEPT !.Data[s.DataPtr] = Wrap(@ + 1)]]
          [] c = CmdMinus ->
                [state |-> "run", s |-> [next EXCEPT !.Data[s.DataPtr] = Wrap(@ - 1)]]
          [] c = CmdOut ->
                IF env.werr THEN [state |-> "error", s |-> s]
                ELSE [state |-> "run",
                      s |-> [next EXCEPT !.Output = Append(@, s.Data[s.DataPtr])]]
          [] c = CmdIn ->
                IF env.rerr THEN [state |-> "error", s |-> s]
                ELSE [state |-> "run",
                      s |-> [next EXCEPT !.Input = Append(@, env.rn),
                                         !.Data[s.DataPtr] = env.rn]]
          [] c = CmdStartLoop ->
                IF s.Data[s.DataPtr] = 0
                THEN [state |-> "run", s |-> [s EXCEPT !.pc = MatchClose(prog, s.pc) + 1]]
                ELSE [state |-> "run", s |-> next]
          [] c = CmdEndLoop ->
                [state |-> "run", s |-> [s EXCEPT !.pc = MatchOpen(prog, s.pc)]]
          [] OTHER -> [state |-> "run", s |-> next]

RECURSIVE RefRun(_, _, _, _)
RefRun(prog, s, log, fuel) ==
    IF fuel = 0 THEN [state |-> "fuel", s |-> s]
    ELSE IF s.pc >= Len(prog) THEN [state |-> "ok", s |-> s]
    ELSE LET r == RefStep(prog, s, EnvAt(s, log))
         IN  IF r.state = "error" THEN r ELSE RefRun(prog, r.s, log, fuel - 1)

\* steps given to a replayed or reference run before it counts as not ended
Fuel == 2 * MaxSteps

----------------------------------------------------------------------------
(* Vocabulary of the properties *)

\* this step is an iteration of Run's loop that got a command
Iterated == steps' = steps + 1 /\ (ok' \/ commands' # commands)

\* this step dispatches the command c at position bf.CmdPtr
Dispatched(c) == Iterated /\ cmd' = c

\* Run has returned, and not because the reader failed: commands is the
\* whole program as far as this run could tell
Returned == ret.state # "running" /\ ret.err.msg # MsgReadCommand

\* the elements of a set of positions, the largest first
RECURSIVE Descending(_)
Descending(S) ==
    IF S = {} THEN <<>>
    ELSE LET m == CHOOSE x \in S : \A y \in S : y <= x
         IN  <<m>> \o Descending(S \ {m})

\* position e holds the `]` that closes the `[` at position p
Closes(prog, e, p) ==
    /\ InProg(prog, e)
    /\ ByteAt(prog, e) = CmdEndLoop
    /\ MatchOpen(prog, e) = p

----------------------------------------------------------------------------
(* C1: for a properly nested program whose loops terminate, Run ends with  *)
(* the memory, data pointer, output and outcome of a reference interpreter *)
(* that has random access to the whole program.                            *)
C1_SameAsReference ==
    (Returned /\ WellNested(commands)) =>
        LET ref == RefRun(commands, RefInit, Replay(bf, ret), Fuel)
        IN  ref.state # "fuel" =>
                /\ ref.state = ret.state
                /\ ref.s.Data = bf.Data
                /\ ref.s.DataPtr = bf.DataPtr
                /\ ref.s.Output = bf.Output

(* C2: a `[` executed with the cell at the data pointer equal to 0 leaves  *)
(* the command pointer just past the `]` that closes it, so that no        *)
(* command of the body is executed.                                        *)
C2_ZeroGuardSkipsBody ==
    [][(Dispatched(CmdStartLoop) /\ bf.Data[bf.DataPtr] = 0) =>
            Closes(commands', bf'.CmdPtr - 1, bf.CmdPtr)]_vars

(* C3: the bytes without a handler do not change the result of Run: the    *)
(* program with them removed ends with the same memory, data pointer,      *)
(* output and outcome.                                                     *)
C3_UnknownBytesNoEffect ==
    Returned =>
        LET r == RunProgram(Strip(commands), Replay(bf, ret), Fuel)
        IN  r.state # "fuel" =>
                /\ r.state = ret.state
                /\ r.bf.Data = bf.Data
                /\ r.bf.DataPtr = bf.DataPtr
                /\ r.bf.Output = bf.Output

(* C4: a byte is read from the stream only when the command pointer equals *)
(* the number of bytes consumed so far, a position consumed before is      *)
(* served from the cache, and the command dispatched at position p is the  *)
(* p-th byte of the program.                                               *)
C4_DispatchedIsProgramByte ==
    [][Iterated =>
            /\ commands' # commands => bf.CmdPtr = Len(commands)
            /\ bf.CmdPtr < Len(commands) => ok'
            /\ InProg(commands', bf.CmdPtr)
            /\ cmd' = ByteAt(commands', bf.CmdPtr)]_vars

(* C5: when a `]` is dispatched for an open loop, the cache holds the      *)
(* program byte of every position from that loop's `[` through this `]`.   *)
C5_LoopBodyCached ==
    [][(Dispatched(CmdEndLoop) /\ HasTop(bf.loopStack)) =>
            \A p \in Get(bf.loopStack) .. bf.CmdPtr :
                /\ CacheHas(bf'.cmdCache, p)
                /\ InProg(commands', p)
                /\ bf'.cmdCache.m[p] = ByteAt(commands', p)]_vars

\* the cache exists exactly while a loop is open
CacheIffLoopOpen == bf.cmdCache.nil <=> StackLen(bf.loopStack) = 0

(* C6: after every step the cache exists if and only if the loop stack is  *)
(* not empty; while a loop stays open no entry leaves the cache (an inner  *)
(* loop's exit removes nothing); the step that pops the outermost loop     *)
(* discards the cache, and the cache a later loop starts holds only its    *)
(* `[`.                                                                    *)
C6_CacheLifetime ==
    /\ CacheIffLoopOpen
    /\ [][/\ CacheIffLoopOpen'
          /\ (StackLen(bf.loopStack) > 0 /\ StackLen(bf'.loopStack) > 0) =>
                \A p \in DOMAIN bf.cmdCache.m :
                    CacheHas(bf'.cmdCache, p) /\ bf'.cmdCache.m[p] = bf.cmdCache.m[p]
          /\ (StackLen(bf.loopStack) > 0 /\ StackLen(bf'.loopStack) = 0) =>
                bf'.cmdCache = NilCache
          /\ (StackLen(bf.loopStack) = 0 /\ StackLen(bf'.loopStack) > 0) =>
                bf'.cmdCache = CachePut(MakeCache, bf.CmdPtr, CmdStartLoop)]_vars

\* an inner loop has just been left at its `[` while an outer loop is open,
\* and the cache still serves the inner loop's body
C6_Witness_InnerExit ==
    /\ cmd = CmdStartLoop
    /\ ok
    /\ bf.Data[bf.DataPtr] = 0
    /\ StackLen(bf.loopStack) = 1
    /\ ~bf.cmdCache.nil
    /\ \E p \in DOMAIN bf.cmdCache.m :
            p > Get(bf.loopStack) /\ bf.cmdCache.m[p] = CmdStartLoop

(* C7: when the loop-start handler skips a loop because its guard is 0,    *)
(* the pending loop end it jumps to is the position of the `]` that closes *)
(* that same `[`.                                                          *)
C7_PendingEndMatches ==
    [][(Dispatched(CmdStartLoop) /\ bf.Data[bf.DataPtr] = 0) =>
            Closes(commands', bf.currentLoopEnd, bf.CmdPtr)]_vars

(* C8: at every dispatch over a properly nested program the loop stack     *)
(* holds exactly the start positions of the loops open around the command  *)
(* being executed, the innermost on top (a `[` whose guard is tested again *)
(* is itself on top).                                                      *)
C8_StackIsOpenLoops ==
    [][(Iterated /\ NoStrayClose(commands')) =>
            LET open == Descending(OpenBefore(commands', bf.CmdPtr))
            IN  \/ bf.loopStack = open
                \/ cmd' = CmdStartLoop /\ bf.loopStack = Push(open, bf.CmdPtr)]_vars

\* the program position of the command this step dispatches
DispatchedAt == IF ok' THEN bf.CmdPtr ELSE Len(commands') - 1

(* C9: a `]` dispatched while the loop stack is empty makes Run fail with  *)
(* a stack-underflow error that names the position of that `]`, and the    *)
(* handler changes neither the command pointer, the pending loop end, the  *)
(* data pointer nor a memory cell.                                         *)
C9_UnderflowNamesPosition ==
    [][(Dispatched(CmdEndLoop) /\ ~HasTop(bf.loopStack)) =>
            /\ ret'.state = "error"
            /\ ret'.err.cause = MsgStackEmpty
            /\ ret'.err.causeCmd = <<DispatchedAt>>
            /\ ret'.err.cmd = <<DispatchedAt>>
            /\ bf'.CmdPtr = bf.CmdPtr
            /\ bf'.currentLoopEnd = bf.currentLoopEnd
            /\ bf'.DataPtr = bf.DataPtr
            /\ bf'.Data = bf.Data]_vars

(* C10, as stated: a run over a program with malformed loop nesting (a `]` *)
(* with no open loop, or a `[` that is never closed) does not end with     *)
(* success.                                                                *)
C10_MalformedNeverSucceeds ==
    ret.state = "ok" => WellNested(commands)

(* C10, amended: a `]` dispatched while no loop is open ends the run with  *)
(* a stack-underflow error and no memory result; a `[` that is never       *)
(* closed is no error, the end of the stream returns success.              *)
C10_UnderflowIsFatal ==
    [][(Dispatched(CmdEndLoop) /\ ~HasTop(bf.loopStack)) =>
            /\ ret'.state = "error"
            /\ ~ret'.hasData
            /\ ret'.err.cause = MsgStackEmpty]_vars

\* Run has failed on a `]` with no open loop
C10_Witness_Underflow ==
    /\ ret.state = "error"
    /\ ret.err.cause = MsgStackEmpty
    /\ cmd = CmdEndLoop
    /\ ~HasTop(bf.loopStack)

----------------------------------------------------------------------------
(* The start of Run *)

\* Run has made its first two assignments and has not yet looked up or read
\* a command
AtRunStart == ret.state = "running" /\ steps = 0

\* C11: at the start of every Run, also of one that follows a Run that ended
\* by error or end of program with loops open, the command pointer and the
\* data pointer are 0, the loop stack is empty, there is no cache and the
\* pending loop end is cleared.
C11_RunStartsClean ==
    AtRunStart =>
        /\ bf.CmdPtr = 0
        /\ bf.DataPtr = 0
        /\ StackLen(bf.loopStack) = 0
        /\ bf.cmdCache = NilCache
        /\ bf.currentLoopEnd = 0

----------------------------------------------------------------------------
(* How Run returns *)

\* an iteration of Run's loop that found no command: the lookup missed and
\* the reader delivered no byte
ReadNothing == steps' = steps + 1 /\ ~Iterated

\* everything one call of a handler can meet
Envs ==
    {Env(rn, rerr, werr) : rn \in 0 .. MaxInput, rerr \in BOOLEAN, werr \in BOOLEAN}

\* C12: Run returns success exactly when a read of the commands reader
\* reports the clean end of the program; it then returns the memory as the
\* last executed instruction left it, with no error, and no other step
\* makes Run return successfully.
C12_SuccessIffEOF ==
    [][/\ (ret.state = "running" /\ ret'.state = "ok") =>
            /\ ReadNothing
            /\ ~Hit
            /\ bf' = bf
            /\ ret'.hasData
            /\ ret'.data = bf.Data
            /\ ret'.err = NoErr
       /\ (ReadNothing /\ ret'.err.msg # MsgReadCommand) =>
            /\ ret'.state = "ok"
            /\ ret'.hasData
            /\ ret'.data = bf.Data
       /\ Iterated => ret'.state # "ok"
       /\ ret.state = "ok" => ret'.state = "ok"]_vars

\* Run has returned the memory after a loop ran and wrote the second cell
C12_Witness_Success ==
    /\ ret.state = "ok"
    /\ ret.data = bf.Data
    /\ ret.data[1] # 0
    /\ bf.currentLoopEnd > 0

\* C13: an error ends the run in the step where it arises: Run returns the
\* error and no memory, and afterwards reads no byte, calls no handler and
\* retries nothing.
C13_ErrorEndsRun ==
    [][/\ (ret.state = "running" /\ ret'.state = "error") =>
            /\ ~ret'.hasData
            /\ ret'.data = <<>>
            /\ ret'.err # NoErr
            /\ steps' = steps + 1
       /\ (Iterated /\ ret'.state = "running") =>
            \E env \in Envs : Dispatch(bf, cmd', env) = Done(bf', NoErr)
       /\ ret.state = "error" => UNCHANGED vars]_vars

\* Run has returned the error of a failed write inside a loop
C13_Witness_WriteFailed ==
    /\ ret.state = "error"
    /\ ret.err.msg = MsgProcess
    /\ ret.err.cause = MsgWrite
    /\ StackLen(bf.loopStack) > 0
    /\ ~ret.hasData

\* C14: every error Run returns, whether a boundary error, a stack
\* underflow, a failed input or output or a failed read of the program,
\* carries the value the command pointer had when the failure occurred.
C14_ErrorCarriesCmdPtr ==
    ret.state = "error" => ret.err.cmd = <<bf.CmdPtr>>

----------------------------------------------------------------------------
(* Termination *)

\* Runs on programs that do no input or output and do not move the data
\* pointer, delivered by a reader that does not fail
InitLoops == Start(MaxLoopLen)

NextLoops ==
    \/ Plus
    \/ Minus
    \/ StartLoop
    \/ EndLoop
    \/ Unknown
    \/ ReadEOF

SpecLoops == InitLoops /\ [][NextLoops]_vars

\* the engine after k further iterations of Run's loop that are all served
\* from the cache and all succeed; back is FALSE when an iteration has to
\* read, or fails
RECURSIVE FromCache(_, _)
FromCache(b, k) ==
    IF k = 0
    THEN [back |-> TRUE, bf |-> b]
    ELSE IF ~CacheHas(b.cmdCache, b.CmdPtr)
    THEN [back |-> FALSE, bf |-> b]
    ELSE LET r == Dispatch(b, b.cmdCache.m[b.CmdPtr], NoEnv)
         IN  IF r.err # NoErr \/ b.cmdCache.m[b.CmdPtr] \in {CmdIn, CmdOut}
             THEN [back |-> FALSE, bf |-> r.bf]
             ELSE FromCache(r.bf, k - 1)

\* Run is in a cycle: some iterations on, all served from the cache, the
\* engine is exactly as it is now, so Run never reads again and never returns
Cycling ==
    /\ ret.state = "running"
    /\ \E k \in 1 .. MaxSteps : FromCache(bf, k) = [back |-> TRUE, bf |-> bf]

\* the reference execution of the program delivered so far, on the inputs
\* read so far, ends at the end of the program
RefTerminates ==
    /\ WellNested(commands)
    /\ RefRun(commands, RefInit,
              [inputs |-> bf.Input, nOut |-> Len(bf.Output), werr |-> FALSE],
              Fuel).state = "ok"

\* C15: on a finite program whose reference execution terminates and whose
\* input and output calls return, Run returns: it is never in a cycle that
\* it cannot leave.
C15_NoCycleOnTerminating ==
    RefTerminates => ~Cycling

----------------------------------------------------------------------------
(* The data pointer and the memory *)

\* C16: with the handlers New registers, the data pointer is at every moment
\* of a run at least 0 and less than the capacity; the capacity is the
\* positive size fixed by New, the default 4096 when the size asked for is
\* 0, and it never changes during the run.
C16_DataPtrInCapacity ==
    /\ DataLen(New(0)) = DefaultDataSize
    /\ DataLen(New(MemSize)) = MemSize
    /\ [](/\ DataLen(bf) \in {MemSize, DefaultDataSize}
          /\ DataLen(bf) > 0
          /\ DOMAIN bf.Data = 0 .. DataLen(bf) - 1
          /\ 0 <= bf.DataPtr
          /\ bf.DataPtr < DataLen(bf))
    /\ [][DataLen(bf') = DataLen(bf)]_vars

\* on an engine of the default size, `<` was refused at cell 0
C16_Witness_DefaultSize ==
    /\ DataLen(bf) = DefaultDataSize
    /\ ret.state = "error"
    /\ ret.err.cause = MsgShiftLeft
    /\ bf.DataPtr = 0

\* C17: `>` at the last index and `<` at index 0 each fail with the
\* boundary error and leave the data pointer and every cell as they were.
C17_ShiftRefusedAtEdge ==
    [][/\ (Dispatched(CmdShiftRight) /\ bf.DataPtr = DataLen(bf) - 1) =>
            /\ ret'.state = "error"
            /\ ret'.err.cause = MsgShiftRight
            /\ bf'.DataPtr = bf.DataPtr
            /\ bf'.Data = bf.Data
       /\ (Dispatched(CmdShiftLeft) /\ bf.DataPtr = 0) =>
            /\ ret'.state = "error"
            /\ ret'.err.cause = MsgShiftLeft
            /\ bf'.DataPtr = bf.DataPtr
            /\ bf'.Data = bf.Data]_vars

\* `>` was refused at the last cell, with both cells written before
C17_Witness_RefusedAtLast ==
    /\ ret.state = "error"
    /\ ret.err.cause = MsgShiftRight
    /\ cmd = CmdShiftRight
    /\ bf.DataPtr = DataLen(bf) - 1
    /\ \A i \in DOMAIN bf.Data : bf.Data[i] # 0

Shifts == {CmdShiftRight, CmdShiftLeft}

\* the number of `>` less the number of `<` in a sequence of commands
RECURSIVE Displacement(_)
Displacement(seq) ==
    IF seq = <<>>
    THEN 0
    ELSE Displacement(Tail(seq)) +
         (IF Head(seq) = CmdShiftRight THEN 1
          ELSE IF Head(seq) = CmdShiftLeft THEN -1 ELSE 0)

\* the program so far is made of `>` and `<` only, and from cell 0 its
\* running displacement never leaves the memory
ShiftsWithin ==
    /\ \A i \in 1 .. Len(commands) : commands[i] \in Shifts
    /\ \A k \in 1 .. Len(commands) :
            /\ 0 <= Displacement(SubSeq(commands, 1, k))
            /\ Displacement(SubSeq(commands, 1, k)) < DataLen(bf)

\* C18: for every sequence of `>` and `<` whose running displacement stays
\* within the memory every step succeeds, the data pointer ends at its start
\* plus the number of `>` less the number of `<`, and no cell changes.
C18_ShiftsAddUp ==
    /\ [](ShiftsWithin =>
            /\ ret.err.msg \in {"", MsgReadCommand}
            /\ bf.DataPtr = Displacement(commands)
            /\ \A i \in DOMAIN bf.Data : bf.Data[i] = 0)
    /\ [][(/\ (Dispatched(CmdShiftRight) \/ Dispatched(CmdShiftLeft))
           /\ 0 <= bf.DataPtr + Displacement(<<cmd'>>)
           /\ bf.DataPtr + Displacement(<<cmd'>>) < DataLen(bf)) =>
               /\ ret'.state = "running"
               /\ bf'.DataPtr = bf.DataPtr + Displacement(<<cmd'>>)
               /\ bf'.Data = bf.Data]_vars

\* Run has returned from the program `><>`
C18_Witness_ThreeShifts ==
    /\ ShiftsWithin
    /\ Len(commands) >= 3
    /\ ret.state = "ok"
    /\ bf.DataPtr = 1

\* n times the command c
Times(c, n) == [i \in 1 .. n |-> c]

\* C19: for every value v of a cell and every n, n `+` followed by n `-`,
\* and n `-` followed by n `+`, leave the cell equal to v, also when the
\* value wraps around at the greatest or the least value of the type; and
\* neither command ever fails.
C19_PlusMinusCancel ==
    /\ ret.state # "error"
    /\ \A n \in 1 .. MaxWrapLen :
            (\/ commands = <<CmdIn>> \o Times(CmdPlus, n) \o Times(CmdMinus, n)
             \/ commands = <<CmdIn>> \o Times(CmdMinus, n) \o Times(CmdPlus, n)) =>
                bf.Data[0] = bf.Input[1]

\* the cell held the greatest value, wrapped around to the least on the
\* first of two `+`, and is back after two `-`
C19_Witness_WrapAtMax ==
    /\ commands = <<CmdIn, CmdPlus, CmdPlus, CmdMinus, CmdMinus>>
    /\ bf.Input[1] = CellMax
    /\ bf.Data[0] = CellMax

\* the engine b with the cell at its data pointer changed by d, after Run
\* has advanced the command pointer; cache stands for the cache, to which
\* Run may have added the command
CellChanged(b, d, cache) ==
    [b EXCEPT !.Data[b.DataPtr] = Wrap(@ + d), !.CmdPtr = @ + 1, !.cmdCache = cache]

\* C20: `+` and `-` change only the cell at the data pointer, by +1 and -1:
\* every other cell, the data pointer, the command pointer (which Run then
\* advances by one), the loop stack and the output stay as they were; `>`
\* and `<` change only the data pointer.
C20_HandlersFrame ==
    /\ [](ret.state = "running" =>
            /\ opPlus(bf) = Done([bf EXCEPT !.Data[bf.DataPtr] = Wrap(@ + 1)], NoErr)
            /\ opMinus(bf) = Done([bf EXCEPT !.Data[bf.DataPtr] = Wrap(@ - 1)], NoErr)
            /\ opShiftRight(bf).bf \in {bf, [bf EXCEPT !.DataPtr = @ + 1]}
            /\ opShiftLeft(bf).bf \in {bf, [bf EXCEPT !.DataPtr = @ - 1]})
    /\ [][/\ Dispatched(CmdPlus) =>
               /\ bf' = CellChanged(bf, 1, bf'.cmdCache)
               /\ ret' = ret
          /\ Dispatched(CmdMinus) =>
               /\ bf' = CellChanged(bf, -1, bf'.cmdCache)
               /\ ret' = ret
          /\ (Dispatched(CmdShiftRight) \/ Dispatched(CmdShiftLeft)) =>
               /\ [bf' EXCEPT !.DataPtr = bf.DataPtr] \in
                       {[bf EXCEPT !.cmdCache = bf'.cmdCache],
                        [bf EXCEPT !.cmdCache = bf'.cmdCache, !.CmdPtr = @ + 1]}]_vars

\* `+` has just run on the second cell inside a loop, after an output, with
\* the first cell holding a value
C20_Witness_PlusInLoop ==
    /\ cmd = CmdPlus
    /\ ret.state = "running"
    /\ bf.DataPtr = 1
    /\ bf.Data[1] = 1
    /\ bf.Data[0] # 0
    /\ StackLen(bf.loopStack) > 0
    /\ Len(bf.Output) > 0

----------------------------------------------------------------------------
(* Overloaded commands *)

\* the table t with the entry of the byte c added, or replaced, by h
WithEntry(t, c, h) == [k \in DOMAIN t \cup {c} |-> IF k = c THEN h ELSE t[k]]

\* the bytes WithCmd accepts, of those the caller uses
Overloadable == WithCmdBytes \ {CmdStartLoop, CmdEndLoop}

\* C21: WithCmd called with `[` or `]` leaves the operator table as it is,
\* so the built-in loop handlers stay; called with another byte it adds or
\* replaces the entry of that byte and no other; hence after any sequence of
\* calls the table has a handler for each of the eight baseline bytes.
C21_LoopHandlersProtected ==
    /\ [](/\ \A c \in Baseline : c \in DOMAIN bf.opMap
          /\ bf.opMap[CmdStartLoop] = "opStartLoop"
          /\ bf.opMap[CmdEndLoop] = "opEndLoop"
          /\ \A h \in Handlers :
                /\ WithCmd(bf, CmdStartLoop, h) = bf
                /\ WithCmd(bf, CmdEndLoop, h) = bf
                /\ \A c \in Overloadable :
                      WithCmd(bf, c, h) = [bf EXCEPT !.opMap = WithEntry(bf.opMap, c, h)])
    /\ [][bf'.opMap # bf.opMap =>
            /\ ret.state # "running"
            /\ \E c \in Overloadable, h \in Handlers :
                    bf' = [bf EXCEPT !.opMap = WithEntry(bf.opMap, c, h)]]_vars

\* a Run on an engine with a handler added under x and the handler of `+`
\* replaced
C21_Witness_AddedAndReplaced ==
    /\ ret.state = "running"
    /\ CmdCustom \in DOMAIN bf.opMap
    /\ bf.opMap[CmdPlus] \in Handlers
    /\ bf.opMap[CmdStartLoop] = "opStartLoop"
    /\ bf.opMap[CmdEndLoop] = "opEndLoop"

\* the engine b after the handler registered under h has run once and Run
\* has advanced the command pointer, the cache apart
AfterHandler(b, h) ==
    IF h = "opCustom"
    THEN [b EXCEPT !.Data[b.DataPtr] = Wrap(@ * @), !.CmdPtr = @ + 1]
    ELSE [b EXCEPT !.DataPtr = 0, !.CmdPtr = @ + 2]

\* C22: a byte registered through WithCmd, other than `[` and `]`, is
\* dispatched to its handler exactly once each time its position is
\* executed; the handler reads and writes the memory and both pointers; and
\* inside a loop the byte is cached and replayed from the cache like a
\* baseline command.
C22_RegisteredByteDispatched ==
    [][/\ \A c \in Overloadable :
            (Dispatched(c) /\ c \in DOMAIN bf.opMap /\ bf.opMap[c] \in Handlers) =>
                /\ [bf' EXCEPT !.cmdCache = bf.cmdCache] = AfterHandler(bf, bf.opMap[c])
                /\ ret' = ret
                /\ StackLen(bf.loopStack) > 0 =>
                        /\ CacheHas(bf'.cmdCache, bf.CmdPtr)
                        /\ bf'.cmdCache.m[bf.CmdPtr] = c
       /\ (CanStep /\ Hit /\ steps' = steps + 1) =>
            /\ ok'
            /\ cmd' = bf.cmdCache.m[bf.CmdPtr]
            /\ commands' = commands]_vars

\* the registered byte x has been replayed from the cache inside a loop
C22_Witness_Replayed ==
    /\ cmd = CmdCustom
    /\ ok
    /\ bf.opMap[CmdCustom] = "opCustom"
    /\ StackLen(bf.loopStack) > 0
    /\ ret.state = "running"

----------------------------------------------------------------------------
(* Output and input *)

\* C23: `.` passes the value of the cell at the data pointer to the output
\* exactly once and leaves the memory and the data pointer as they were, so
\* the output of a run is the sequence of the cell values at each executed
\* `.`; when the output fails the handler returns an error.
C23_OutWritesCellOnce ==
    [][/\ Dispatched(CmdOut) =>
            /\ bf'.Data = bf.Data
            /\ bf'.DataPtr = bf.DataPtr
            /\ \/ /\ ret' = ret
                  /\ bf'.Output = Append(bf.Output, bf.Data[bf.DataPtr])
               \/ /\ ret'.state = "error"
                  /\ ret'.err.cause = MsgWrite
                  /\ bf'.Output = bf.Output
       /\ ~Dispatched(CmdOut) => bf'.Output = bf.Output]_vars

\* the program `++.` has put out the value 2 and the cell is 2
C23_Witness_PlusPlusOut ==
    /\ commands = <<CmdPlus, CmdPlus, CmdOut>>
    /\ bf.Output = <<2>>
    /\ bf.Data[0] = 2
    /\ ret.state = "running"

\* C24: `,` asks the input for one value and stores it in the cell at the
\* data pointer, changing no other cell and not the data pointer; when the
\* input fails the handler returns an error and the cell keeps its value.
C24_InStoresValue ==
    [][/\ Dispatched(CmdIn) =>
            /\ bf'.DataPtr = bf.DataPtr
            /\ \/ /\ ret' = ret
                  /\ Len(bf'.Input) = Len(bf.Input) + 1
                  /\ SubSeq(bf'.Input, 1, Len(bf.Input)) = bf.Input
                  /\ bf'.Data =
                        [bf.Data EXCEPT ![bf.DataPtr] = bf'.Input[Len(bf'.Input)]]
               \/ /\ ret'.state = "error"
                  /\ ret'.err.cause = MsgRead
                  /\ bf'.Input = bf.Input
                  /\ bf'.Data = bf.Data
       /\ ~Dispatched(CmdIn) => bf'.Input = bf.Input]_vars

\* the input failed on a cell that held a value read before, and the cell
\* still holds it
C24_Witness_FailedKeepsCell ==
    /\ ret.state = "error"
    /\ ret.err.cause = MsgRead
    /\ Len(bf.Input) > 0
    /\ bf.Data[bf.DataPtr] # 0
    /\ bf.Data[bf.DataPtr] = bf.Input[Len(bf.Input)]

----------------------------------------------------------------------------
(* The loop handlers *)

\* C25: the handler of `[` at position p pushes p exactly when the top of
\* the loop stack is not p, and with a guard other than 0 changes nothing
\* else, so however often a loop iterates its start position is on the
\* stack exactly once.
C25_StartOnStackOnce ==
    \A i, j \in 1 .. StackLen(bf.loopStack) :
        bf.loopStack[i] = bf.loopStack[j] => i = j

\* the loop stack of the engine b once the handler of `[` has made sure
\* that the position of b is on top of it
WithStart(b) ==
    IF (~HasTop(b.loopStack)) \/ Get(b.loopStack) # b.CmdPtr
    THEN <<b.CmdPtr>> \o b.loopStack
    ELSE b.loopStack

\* C26: the handler of `[`, run with a guard of 0, removes exactly one entry
\* from the loop stack, the entry of the current position, leaves the
\* entries of the enclosing loops in place and in order, sets the command
\* pointer to the pending loop end (Run then advances it by one) and leaves
\* the memory and the data pointer as they were.
C26_ZeroGuardPopsOne ==
    [][(Dispatched(CmdStartLoop) /\ bf.Data[bf.DataPtr] = 0) =>
            /\ Head(WithStart(bf)) = bf.CmdPtr
            /\ bf'.loopStack = Tail(WithStart(bf))
            /\ bf'.CmdPtr = bf.currentLoopEnd + 1
            /\ bf'.currentLoopEnd = bf.currentLoopEnd
            /\ bf'.Data = bf.Data
            /\ bf'.DataPtr = bf.DataPtr
            /\ ret' = ret]_vars

\* the inner of two loops has been left from its `[`, re-tested from the
\* cache after its `]`: the entry of the outer loop is still on the stack
C26_Witness_InnerLeft ==
    /\ cmd = CmdStartLoop
    /\ ok
    /\ ret.state = "running"
    /\ StackLen(bf.loopStack) = 1
    /\ bf.currentLoopEnd > 0
    /\ bf.CmdPtr = bf.currentLoopEnd + 1
    /\ bf.Data[bf.DataPtr] = 0

\* C27: `]` at position p with a loop stack that is not empty sets the
\* pending loop end to p and the command pointer to the top of the stack
\* less one, and leaves the loop stack, the memory and the data pointer as
\* they were, so the next command dispatched is the `[` of that loop, whose
\* guard is tested again.
C27_EndLoopReturnsToStart ==
    [][/\ (Dispatched(CmdEndLoop) /\ HasTop(bf.loopStack)) =>
            /\ bf'.currentLoopEnd = bf.CmdPtr
            /\ bf'.CmdPtr = (Get(bf.loopStack) - 1) + 1
            /\ bf'.loopStack = bf.loopStack
            /\ bf'.Data = bf.Data
            /\ bf'.DataPtr = bf.DataPtr
            /\ ret' = ret
       /\ (cmd = CmdEndLoop /\ ret.state = "running" /\ steps' = steps + 1) =>
            /\ bf.CmdPtr = Get(bf.loopStack)
            /\ ok'
            /\ cmd' = CmdStartLoop
            /\ bf'.loopStack =
                    IF bf.Data[bf.DataPtr] # 0 THEN bf.loopStack ELSE Tail(bf.loopStack)]_vars

\* the `]` of the inner of two loops has run: Run is about to dispatch the
\* `[` of that loop again
C27_Witness_BackAtInnerStart ==
    /\ cmd = CmdEndLoop
    /\ ret.state = "running"
    /\ StackLen(bf.loopStack) = 2
    /\ bf.CmdPtr = Get(bf.loopStack)
    /\ bf.currentLoopEnd > bf.CmdPtr

-----------------------------------------------------------------------------
(* Cancellation *)

\* longest program of a run that its caller may cancel
MaxCancelLen == 3

\* the caller of Run raises its cancellation signal, as closing the Done
\* channel of a context does; the engine has no part in this step
Cancel ==
    /\ ~cancelled
    /\ cancelled' = TRUE
    /\ UNCHANGED <<bf, commands, cmd, ok, ret, steps, avail, runs, peer, stk>>

-----------------------------------------------------------------------------
(* BfRunner: the engine that is given its whole program and a context *)

\* longest program handed to BfRunner.Run
MaxRunnerLen == 3

MsgRunnerShiftRight == "shift+ out of boundary"
MsgRunnerShiftLeft == "shift- out of boundary"
MsgRunnerWrite == "failed to print value"
MsgNonClosed == "non-closed loop"

\* New(dataSize, w, r), and the first three assignments of Run; pc is the
\* place of Run in its loop: "select" at the head of an iteration,
\* "process" once the select has taken its default branch
RunnerStart(dataSize, prog) ==
    [data |-> [i \in 0 .. (IF dataSize = 0 THEN DefaultDataSize ELSE dataSize) - 1 |-> 0],
     output |-> <<>>,
     input |-> <<>>,
     cmdPtr |-> 0,
     dataPtr |-> 0,
     commands |-> prog,
     loopStack |-> BuildStack,
     pc |-> "select",
     ret |-> Running,
     steps |-> 0]

RECURSIVE findLoopEndFrom(_, _, _)
findLoopEndFrom(i, loopCnt, prog) ==
    IF i >= Len(prog) THEN -1
    ELSE LET n == IF ByteAt(prog, i) = CmdStartLoop THEN loopCnt + 1
                  ELSE IF ByteAt(prog, i) = CmdEndLoop THEN loopCnt - 1
                  ELSE loopCnt
         IN  IF n = 0 THEN i ELSE findLoopEndFrom(i + 1, n, prog)

findLoopEnd(loopStart, prog) == findLoopEndFrom(loopStart, 0, prog)

\* what r.output.Write is handed for the cell value v
Printed(v) == ToString(v) \o "\r\n"

\* processCmd(r.cmdPtr): the runner after the command, and the error
processCmd(r, env) ==
    LET c == ByteAt(r.commands, r.cmdPtr)
        next(q) == [r |-> [q EXCEPT !.cmdPtr = @ + 1], err |-> NoErr]
        fail(e) == [r |-> r, err |-> e]
    IN  CASE c = CmdShiftRight ->
               IF r.dataPtr >= Cardinality(DOMAIN r.data) - 1
               THEN fail(LeafError(MsgRunnerShiftRight, <<>>))
               ELSE next([r EXCEPT !.dataPtr = @ + 1])
          [] c = CmdShiftLeft ->
               IF r.dataPtr <= 0
               THEN fail(LeafError(MsgRunnerShiftLeft, <<>>))
               ELSE next([r EXCEPT !.dataPtr = @ - 1])
          [] c = CmdPlus -> next([r EXCEPT !.data[r.dataPtr] = @ + 1])
          [] c = CmdMinus -> next([r EXCEPT !.data[r.dataPtr] = @ - 1])
          [] c = CmdOut ->
               IF env.werr
               THEN fail(LeafError(MsgRunnerWrite, <<>>))
               ELSE next([r EXCEPT !.output = Append(@, Printed(r.data[r.dataPtr]))])
          [] c = CmdIn ->
               IF env.rerr
               THEN fail(LeafError(MsgRead, <<>>))
               ELSE next([r EXCEPT !.data[r.dataPtr] = env.rn,
                                   !.input = Append(@, env.rn)])
          [] c = CmdStartLoop ->
               LET isNew == (~HasTop(r.loopStack)) \/ Get(r.loopStack).start # r.cmdPtr
                   loopEnd == findLoopEnd(r.cmdPtr, r.commands)
                   loop == IF isNew THEN [start |-> r.cmdPtr, end |-> loopEnd]
                           ELSE Get(r.loopStack)
                   q == IF isNew THEN [r EXCEPT !.loopStack = Push(@, loop)] ELSE r
               IN  IF isNew /\ loopEnd = -1
                   THEN fail(LeafError(MsgNonClosed, <<r.cmdPtr>>))
                   ELSE IF q.data[q.dataPtr] = 0
                   THEN next([q EXCEPT !.loopStack = Pop(@), !.cmdPtr = loop.end])
                   ELSE next(q)
          [] c = CmdEndLoop ->
               IF ~HasTop(r.loopStack)
               THEN fail(LeafError(MsgStackEmpty, <<r.cmdPtr>>))
               ELSE next([r EXCEPT !.cmdPtr = Get(r.loopStack).start - 1])
          [] OTHER -> next(r)

\* a return of (nil, nil)
ReturnNil == [state |-> "ok", hasData |-> FALSE, data |-> <<>>, err |-> NoErr]

RunnerRuns == peer # NoPeer /\ peer.ret.state = "running" /\ peer.steps < MaxSteps

\* the command pointer is past the program: Run returns the data
RunnerReturn ==
    /\ RunnerRuns
    /\ peer.pc = "select"
    /\ peer.cmdPtr >= Len(peer.commands)
    /\ peer' = [peer EXCEPT !.ret = ReturnData(peer.data), !.steps = @ + 1]
    /\ UNCHANGED <<bf, commands, cmd, ok, ret, steps, avail, runs, cancelled, stk>>

\* the select finds the Done channel of the context closed
RunnerCancelled ==
    /\ RunnerRuns
    /\ peer.pc = "select"
    /\ peer.cmdPtr < Len(peer.commands)
    /\ cancelled
    /\ peer' = [peer EXCEPT !.ret = ReturnNil, !.steps = @ + 1]
    /\ UNCHANGED <<bf, commands, cmd, ok, ret, steps, avail, runs, cancelled, stk>>

\* the select finds the context live and takes its default branch
RunnerSelect ==
    /\ RunnerRuns
    /\ peer.pc = "select"
    /\ peer.cmdPtr < Len(peer.commands)
    /\ ~cancelled
    /\ peer' = [peer EXCEPT !.pc = "process"]
    /\ UNCHANGED <<bf, commands, cmd, ok, ret, steps, avail, runs, cancelled, stk>>

\* processCmd runs to its end, whatever has become of the context since
\* the select: the caller may cancel while Read or Write waits
RunnerStep ==
    /\ RunnerRuns
    /\ peer.pc = "process"
    /\ \E rn \in 0 .. MaxInput, rerr \in BOOLEAN, werr \in BOOLEAN :
          LET c == ByteAt(peer.commands, peer.cmdPtr)
              p == processCmd(peer, Env(rn, rerr, werr))
          IN  /\ (c # CmdIn) => (rn = 0 /\ ~rerr)
              /\ rerr => rn = 0
              /\ (c # CmdOut) => ~werr
              /\ peer' = [p.r EXCEPT
                            !.pc = "select",
                            !.ret = IF p.err # NoErr
                                    THEN ReturnErr(Error(MsgProcess, <<peer.cmdPtr>>, p.err))
                                    ELSE @,
                            !.steps = @ + 1]
    /\ UNCHANGED <<bf, commands, cmd, ok, ret, steps, avail, runs, cancelled, stk>>

\* the programs handed to BfRunner.Run
RunnerPrograms ==
    UNION {[1 .. n -> Baseline \cup {CmdUnknown}] : n \in 0 .. MaxRunnerLen}

\* either engine is run by a caller that may cancel: BfInterpreter.Run on a
\* reader, or BfRunner.Run on a program and a context
InitCancel ==
    \/ Start(MaxCancelLen)
    \/ /\ bf = New(MemSize)
       /\ commands = <<>>
       /\ cmd = CmdUnknown
       /\ ok = FALSE
       /\ ret = NotCalled
       /\ steps = 0
       /\ avail = 0
       /\ runs = 0
       /\ cancelled \in BOOLEAN
       /\ \E prog \in RunnerPrograms : peer = RunnerStart(MemSize, prog)
       /\ stk = NoStack

NextCancel ==
    \/ Next
    \/ Cancel
    \/ RunnerSelect
    \/ RunnerStep
    \/ RunnerReturn
    \/ RunnerCancelled

SpecCancel == InitCancel /\ [][NextCancel]_vars

\* BfRunner.Run with its context cancelled at the head of an iteration:
\* the iteration returns (nil, nil), or the data when the program is at its
\* end, and processCmd is not called; a processCmd already under way when
\* the caller cancels runs to its end
RunnerStopsOnceCancelled ==
    [][(cancelled /\ peer # NoPeer /\ peer.pc = "select" /\ peer' # peer) =>
            /\ peer'.ret.state # "running"
            /\ peer'.ret \in {ReturnNil, ReturnData(peer.data)}
            /\ [peer' EXCEPT !.ret = peer.ret, !.steps = peer.steps] = peer]_vars

\* C28: Run checks the cancellation signal before each dispatch step: with
\* the signal raised at the head of an iteration of its loop no command is
\* dispatched, by either engine, and the state of the engine stays as the
\* commands already executed, or under way, left it.
C28_NoDispatchOnceCancelled ==
    [][cancelled =>
            /\ ~Iterated
            /\ bf' = bf
            /\ (peer # NoPeer /\ peer.pc = "select") =>
                  [peer' EXCEPT !.ret = peer.ret, !.steps = peer.steps] = peer]_vars

-----------------------------------------------------------------------------
(* Two engines.  The slices, maps and stacks of Go are objects on a heap,  *)
(* and so are the reader and the writer the caller hands to New; an engine *)
(* holds references to them: what two engines share is what they hold the  *)
(* same address of.                                                        *)

\* bytes the two readers deliver between them
MaxPairLen == 3

\* the commands of the two programs
PairBytes == {CmdPlus, CmdOut, CmdIn, CmdStartLoop, CmdEndLoop, CmdCustom}

\* what Input.Read returns to the two runs: a value unlike a new cell
PairInputs == {MaxInput}

\* the handler the caller registers on an engine of the pair
PairHandlers == {"opCustom"}

\* the nil reference
NilRef == 0

\* an object on the heap: what it is and what it holds.  A reader holds the
\* values it has returned, a writer the values it has received
Obj(kind, v) == [kind |-> kind, v |-> v]

\* the address the next allocation gets: the heap is the sequence of the
\* objects allocated so far
Alloc(heap) == Len(heap) + 1

\* the caller makes an InputReader or an OutputWriter
NewIO(heap, kind) == [heap |-> Append(heap, Obj(kind, <<>>)), ref |-> Alloc(heap)]

\* New that gives every engine the operator table of the first one, as a
\* package-level map handed to each engine would be
NewIn_SharedTable(heap, dataSize, input, output) ==
    LET b == New(dataSize)
        tables == {a \in DOMAIN heap : heap[a].kind = "opMap"}
        shared == tables # {}
    IN  [heap |-> IF shared
                  THEN heap \o <<Obj("Data", b.Data), Obj("loopStack", b.loopStack)>>
                  ELSE heap \o <<Obj("Data", b.Data), Obj("loopStack", b.loopStack),
                                 Obj("opMap", b.opMap)>>,
         e |-> [Data |-> Alloc(heap),
                loopStack |-> Alloc(heap) + 1,
                opMap |-> IF shared THEN CHOOSE a \in tables : TRUE
                          ELSE Alloc(heap) + 2,
                cmdCache |-> NilRef,
                CmdPtr |-> b.CmdPtr,
                DataPtr |-> b.DataPtr,
                Input |-> input,
                Output |-> output,
                currentLoopEnd |-> b.currentLoopEnd]]

\* New on a heap: the Data slice, the loop stack and the opMap literal are
\* three new objects, the cache is nil, Input and Output are the references
\* the caller passed, and the engine holds the addresses of all five
NewIn(heap, dataSize, input, output) ==
    LET b == New(dataSize)
    IN  [heap |-> heap \o <<Obj("Data", b.Data), Obj("loopStack", b.loopStack),
                            Obj("opMap", b.opMap)>>,
         e |-> [Data |-> Alloc(heap),
                loopStack |-> Alloc(heap) + 1,
                opMap |-> Alloc(heap) + 2,
                cmdCache |-> NilRef,
                CmdPtr |-> b.CmdPtr,
                DataPtr |-> b.DataPtr,
                Input |-> input,
                Output |-> output,
                currentLoopEnd |-> b.currentLoopEnd]]

\* the engine e as it reads its objects on the heap
Deref(heap, e) ==
    [Data |-> heap[e.Data].v,
     CmdPtr |-> e.CmdPtr,
     DataPtr |-> e.DataPtr,
     Input |-> heap[e.Input].v,
     Output |-> heap[e.Output].v,
     loopStack |-> heap[e.loopStack].v,
     cmdCache |-> IF e.cmdCache = NilRef THEN NilCache
                  ELSE [nil |-> FALSE, m |-> heap[e.cmdCache].v],
     opMap |-> heap[e.opMap].v,
     currentLoopEnd |-> e.currentLoopEnd]

\* the heap and the engine e after e has moved to b: the writes to Data,
\* to the table and to the stack, the value Input.Read returned and the
\* value Output.Write received go to the objects e holds; a cache made by
\* make(CmdCache) is a new object, a cache set to nil drops the reference
Store(heap, e, b) ==
    LET h1 == [heap EXCEPT ![e.Data].v = b.Data,
                           ![e.opMap].v = b.opMap,
                           ![e.loopStack].v = b.loopStack,
                           ![e.Input].v = b.Input,
                           ![e.Output].v = b.Output]
        made == e.cmdCache = NilRef /\ ~b.cmdCache.nil
        h2 == IF b.cmdCache.nil THEN h1
              ELSE IF made THEN Append(h1, Obj("cmdCache", b.cmdCache.m))
              ELSE [h1 EXCEPT ![e.cmdCache].v = b.cmdCache.m]
    IN  [heap |-> h2,
         e |-> [e EXCEPT !.cmdCache = IF b.cmdCache.nil THEN NilRef
                                      ELSE IF made THEN Alloc(h1)
                                      ELSE @,
                         !.CmdPtr = b.CmdPtr,
                         !.DataPtr = b.DataPtr,
                         !.currentLoopEnd = b.currentLoopEnd]]

\* an engine and the position of its Run: the bytes its reader has
\* delivered, the values its calls of Input.Read have returned, the locals
\* cmd and ok, what Run has returned, the iterations
NewRun(e) ==
    [e |-> [e EXCEPT !.CmdPtr = 0, !.DataPtr = 0],
     commands |-> <<>>,
     reads |-> <<>>,
     cmd |-> CmdUnknown,
     ok |-> FALSE,
     ret |-> Running,
     steps |-> 0]

\* one iteration of Run's loop that gets the command c
RunIterate(e, c, env) ==
    LET hit == CacheHas(e.bf.cmdCache, e.bf.CmdPtr)
        r == Dispatch(e.bf, c, env)
    IN  [bf |-> r.bf,
         commands |-> IF hit THEN e.commands ELSE Append(e.commands, c),
         reads |-> IF Len(r.bf.Input) > Len(e.bf.Input)
                   THEN Append(e.reads, env.rn) ELSE e.reads,
         cmd |-> c,
         ok |-> hit,
         ret |-> IF r.err # NoErr THEN ReturnErr(r.err) ELSE e.ret,
         steps |-> e.steps + 1]

\* the iteration of Run's loop in which the reader reports io.EOF
RunEOF(e) ==
    [e EXCEPT !.ok = FALSE, !.ret = ReturnData(e.bf.Data), !.steps = @ + 1]

\* engine i of the pair p, with its objects read from the heap
View(p, i) ==
    [bf |-> Deref(p.heap, p.es[i].e),
     commands |-> p.es[i].commands,
     reads |-> p.es[i].reads,
     cmd |-> p.es[i].cmd,
     ok |-> p.es[i].ok,
     ret |-> p.es[i].ret,
     steps |-> p.es[i].steps]

\* the pair p after engine i has moved to the run r
Moved(p, i, r) ==
    LET st == Store(p.heap, p.es[i].e, r.bf)
    IN  [heap |-> st.heap,
         es |-> [p.es EXCEPT ![i] = [e |-> st.e,
                                     commands |-> r.commands,
                                     reads |-> r.reads,
                                     cmd |-> r.cmd,
                                     ok |-> r.ok,
                                     ret |-> r.ret,
                                     steps |-> r.steps]]]

\* the two engines as each reads its own state
Engines == <<View(peer, 1), View(peer, 2)>>

\* engine i runs one iteration of its loop and gets a command; rn is what
\* Input.Read returns if the command calls it
PairIterate ==
    \E i \in 1 .. 2, c \in PairBytes, rn \in PairInputs :
        LET e == Engines[i]
            hit == CacheHas(e.bf.cmdCache, e.bf.CmdPtr)
        IN  /\ e.ret.state = "running"
            /\ e.steps < MaxSteps
            /\ c # CmdIn => rn = MaxInput
            /\ IF hit THEN e.bf.cmdCache.m[e.bf.CmdPtr] = c ELSE avail > 0
            /\ avail' = IF hit THEN avail ELSE avail - 1
            /\ peer' = Moved(peer, i, RunIterate(e, c, Env(rn, FALSE, FALSE)))
            /\ UNCHANGED <<bf, commands, cmd, ok, ret, steps, runs, cancelled, stk>>

\* the reader of engine i reports io.EOF
PairEOF ==
    \E i \in 1 .. 2 :
        LET e == Engines[i]
        IN  /\ e.ret.state = "running"
            /\ e.steps < MaxSteps
            /\ ~CacheHas(e.bf.cmdCache, e.bf.CmdPtr)
            /\ peer' = Moved(peer, i, RunEOF(e))
            /\ UNCHANGED <<bf, commands, cmd, ok, ret, steps, avail, runs, cancelled, stk>>

\* WithCmd on engine i, before its Run has read a command
PairWithCmd ==
    \E i \in 1 .. 2, h \in PairHandlers :
        LET e == Engines[i]
        IN  /\ e.steps = 0
            /\ peer' = Moved(peer, i, [e EXCEPT !.bf = WithCmd(e.bf, CmdCustom, h)])
            /\ UNCHANGED <<bf, commands, cmd, ok, ret, steps, avail, runs, cancelled, stk>>

\* the caller makes a reader and a writer and calls New with them, then
\* calls New again: with the same reader or a new one, with the same writer
\* or a new one
NewPair(sameInput, sameOutput) ==
    LET r1 == NewIO(<<>>, "Input")
        w1 == NewIO(r1.heap, "Output")
        n1 == NewIn(w1.heap, MemSize, r1.ref, w1.ref)
        r2 == IF sameInput THEN [heap |-> n1.heap, ref |-> r1.ref]
              ELSE NewIO(n1.heap, "Input")
        w2 == IF sameOutput THEN [heap |-> r2.heap, ref |-> w1.ref]
              ELSE NewIO(r2.heap, "Output")
        n2 == NewIn(w2.heap, MemSize, r2.ref, w2.ref)
    IN  [heap |-> n2.heap, es |-> <<NewRun(n1.e), NewRun(n2.e)>>]

\* two calls of New, one after the other, and a Run started on each
InitPair ==
    /\ bf = New(MemSize)
    /\ commands = <<>>
    /\ cmd = CmdUnknown
    /\ ok = FALSE
    /\ ret = NotCalled
    /\ steps = 0
    /\ avail = MaxPairLen
    /\ runs = 0
    /\ cancelled = FALSE
    /\ \E sameInput, sameOutput \in BOOLEAN : peer = NewPair(sameInput, sameOutput)
    /\ stk = NoStack

NextPair == PairIterate \/ PairEOF \/ PairWithCmd

SpecPair == InitPair /\ [][NextPair]_vars

\* the engine of e had it run alone: built by New, given the handlers
\* registered on e, run on the bytes the reader of e has delivered and on
\* the values Input.Read has returned to e
Alone(e) ==
    RunFrom([New(MemSize) EXCEPT !.CmdPtr = 0, !.DataPtr = 0, !.opMap = e.bf.opMap],
            e.commands, 0, [inputs |-> e.reads, nOut |-> 0, werr |-> FALSE],
            e.steps).bf

\* the addresses of the objects the engine e makes for itself
Private(e) ==
    {e.Data, e.opMap, e.loopStack} \cup
        (IF e.cmdCache = NilRef THEN {} ELSE {e.cmdCache})

\* the addresses of the objects the engine e holds
Held(e) == Private(e) \cup {e.Input, e.Output}

\* the two engines were given one reader, one writer
SameInput == peer.es[1].e.Input = peer.es[2].e.Input

SameOutput == peer.es[1].e.Output = peer.es[2].e.Output

\* what the engine b holds of its own, the reader and the writer left out
OwnState(b) == [b EXCEPT !.Input = <<>>, !.Output = <<>>]

\* what the run v reads of itself, the reader and the writer left out
Own(v) == [v EXCEPT !.bf = OwnState(@)]

\* engine i took this step
StepOf(i) == Own(Engines'[i]) # Own(Engines[i])

-----------------------------------------------------------------------------
(* The stack on its own *)

\* calls made on the stack
MaxStackOps == 5

\* values pushed are 1 .. MaxValue
MaxValue == 2

\* the stack under test and the record of its calls: l is the list, live
\* the values pushed and not yet popped, the oldest first, out the last
\* call and what it returned, pops the Pop calls that returned a value
EmptyStack ==
    [l |-> BuildStack,
     live |-> <<>>,
     out |-> [op |-> "new", val |-> <<>>],
     pushes |-> 0,
     pops |-> 0,
     calls |-> 0]

CanCall == stk.calls < MaxStackOps

StackPush ==
    /\ CanCall
    /\ \E v \in 1 .. MaxValue :
          stk' = [stk EXCEPT !.l = Push(@, v),
                             !.live = Append(@, v),
                             !.out = [op |-> "Push", val |-> <<>>],
                             !.pushes = @ + 1,
                             !.calls = @ + 1]
    /\ UNCHANGED <<bf, commands, cmd, ok, ret, steps, avail, runs, cancelled, peer>>

StackPop ==
    /\ CanCall
    /\ stk' = [stk EXCEPT !.l = Pop(@),
                          !.live = IF @ = <<>> THEN @ ELSE SubSeq(@, 1, Len(@) - 1),
                          !.out = [op |-> "Pop", val |-> Front(stk.l)],
                          !.pops = IF HasTop(stk.l) THEN @ + 1 ELSE @,
                          !.calls = @ + 1]
    /\ UNCHANGED <<bf, commands, cmd, ok, ret, steps, avail, runs, cancelled, peer>>

StackGet ==
    /\ CanCall
    /\ stk' = [stk EXCEPT !.out = [op |-> "Get", val |-> Front(stk.l)],
                          !.calls = @ + 1]
    /\ UNCHANGED <<bf, commands, cmd, ok, ret, steps, avail, runs, cancelled, peer>>

StackLenCall ==
    /\ CanCall
    /\ stk' = [stk EXCEPT !.out = [op |-> "Len", val |-> <<StackLen(stk.l)>>],
                          !.calls = @ + 1]
    /\ UNCHANGED <<bf, commands, cmd, ok, ret, steps, avail, runs, cancelled, peer>>

InitStack ==
    /\ bf = New(MemSize)
    /\ commands = <<>>
    /\ cmd = CmdUnknown
    /\ ok = FALSE
    /\ ret = NotCalled
    /\ steps = 0
    /\ avail = 0
    /\ runs = 0
    /\ cancelled = FALSE
    /\ peer = NoPeer
    /\ stk = EmptyStack

NextStack == StackPush \/ StackPop \/ StackGet \/ StackLenCall

SpecStack == InitStack /\ [][NextStack]_vars

\* this step is a call of op on the stack
Called(op) == stk'.calls = stk.calls + 1 /\ stk'.out.op = op

\* the most recently pushed value not yet popped, nil when there is none
Newest == IF stk.live = <<>> THEN <<>> ELSE <<stk.live[Len(stk.live)]>>

\* the values of the list from its back to its front
RECURSIVE BackToFront(_)
BackToFront(s) == IF s = <<>> THEN <<>> ELSE Append(BackToFront(Tail(s)), Head(s))

\* C30: the stack is last-in-first-out: Pop returns the most recently
\* pushed value not yet popped and removes only it, Get returns the value
\* the next Pop would return and leaves the stack as it was, and Len is
\* the number of pushes less the number of pops that returned a value.
C30_StackIsLifo ==
    /\ [](stk # NoStack => StackLen(stk.l) = stk.pushes - stk.pops)
    /\ [][/\ Called("Pop") =>
              /\ stk'.out.val = Newest
              /\ BackToFront(stk'.l) =
                     IF stk.live = <<>> THEN <<>>
                     ELSE SubSeq(stk.live, 1, Len(stk.live) - 1)
          /\ Called("Get") =>
              /\ stk'.out.val = Newest
              /\ stk'.out.val = Front(stk.l)
              /\ stk'.l = stk.l
          /\ Called("Len") =>
              /\ stk'.out.val = <<stk.pushes - stk.pops>>
              /\ stk'.l = stk.l]_vars

\* after Push(1), Push(2), Pop: the Pop has returned the value pushed last
\* and the value pushed first is what the stack still holds
C30_Witness_PoppedNewest ==
    /\ stk # NoStack
    /\ stk.out = [op |-> "Pop", val |-> <<2>>]
    /\ stk.pushes = 2
    /\ stk.pops = 1
    /\ stk.l = <<1>>
    /\ stk.calls = 3

\* C31: on an empty stack Get and Pop both return nil and leave the stack
\* empty, with Len 0: they remove nothing and count as no successful pop.
C31_EmptyStackGivesNil ==
    [][((Called("Pop") \/ Called("Get")) /\ stk.live = <<>>) =>
            /\ stk'.out.val = <<>>
            /\ stk'.l = BuildStack
            /\ StackLen(stk'.l) = 0
            /\ stk'.live = <<>>
            /\ stk'.pops = stk.pops
            /\ stk'.pushes = stk.pushes]_vars

\* after Push(1), Pop, Pop: the second Pop found the stack empty
C31_Witness_PopOnEmptied ==
    /\ stk # NoStack
    /\ stk.out = [op |-> "Pop", val |-> <<>>]
    /\ stk.pushes = 1
    /\ stk.pops = 1
    /\ stk.calls = 3

-----------------------------------------------------------------------------
(* Stacks built from values *)

\* most values handed to one BuildStack
MaxBuildLen == 3

\* the value lists handed to BuildStack
BuildInputs ==
    UNION {[1 .. n -> 1 .. MaxValue] : n \in 0 .. MaxBuildLen}

\* the stack BuildStack(values...) returns, and the record of its calls:
\* the values were pushed from the last to the first
Built(values) ==
    [l |-> BuildStackOf(values),
     values |-> values,
     live |-> BackToFront(values),
     out |-> [op |-> "new", val |-> <<>>],
     pushes |-> Len(values),
     pops |-> 0,
     calls |-> 0]

\* s.Equals(v, cmp) on the stack under test and a second built stack; the
\* runs make one comparison of the stack as built and one after each Pop
StackEquals ==
    /\ CanCall
    /\ stk.out.op # "Equals"
    /\ \E ws \in BuildInputs, c \in Comparisons :
          stk' = [stk EXCEPT !.out = [op |-> "Equals",
                                      val |-> <<Equals(stk.l, BuildStackOf(ws), c)>>,
                                      arg |-> ws,
                                      cmp |-> c],
                             !.calls = @ + 1]
    /\ UNCHANGED <<bf, commands, cmd, ok, ret, steps, avail, runs, cancelled, peer>>

InitBuild ==
    /\ bf = New(MemSize)
    /\ commands = <<>>
    /\ cmd = CmdUnknown
    /\ ok = FALSE
    /\ ret = NotCalled
    /\ steps = 0
    /\ avail = 0
    /\ runs = 0
    /\ cancelled = FALSE
    /\ peer = NoPeer
    /\ \E values \in BuildInputs : stk = Built(values)

NextBuild == StackPop \/ StackEquals

SpecBuild == InitBuild /\ [][NextBuild]_vars

\* the two lists are as long as each other and the comparison accepts
\* every pair of elements at the same distance from the top
SamePairwise(s, v, cmp) ==
    /\ Len(s) = Len(v)
    /\ \A i \in 1 .. Len(s) : Cmp(cmp, s[i], v[i])

\* C32: Equals returns true exactly when the two stacks have the same
\* length and every pair of elements, taken position by position from the
\* top to the bottom, satisfies the comparison handed to it, and it changes
\* neither stack.
C32_EqualsComparesPairwise ==
    [][Called("Equals") =>
            LET v == BuildStackOf(stk'.out.arg)
            IN  /\ stk'.out.val = <<SamePairwise(stk.l, v, stk'.out.cmp)>>
                /\ Len(stk.l) # Len(v) => stk'.out.val = <<FALSE>>
                /\ stk'.l = stk.l
                /\ stk'.live = stk.live
                /\ stk'.pops = stk.pops]_vars

\* Equals has returned false for a stack that is a proper prefix of its
\* argument, with a comparison all its own elements satisfy
C32_Witness_ShorterIsDifferent ==
    /\ stk # NoStack
    /\ stk.out.op = "Equals"
    /\ stk.out.val = <<FALSE>>
    /\ stk.l # <<>>
    /\ Len(stk.l) < Len(stk.out.arg)
    /\ \A i \in 1 .. Len(stk.l) : Cmp(stk.out.cmp, stk.l[i], stk.out.arg[i])

\* C33: BuildStack(v0, ..., vk) returns a stack of length k + 1 with v0 on
\* top and vk at the bottom, so its Pops return v0, v1, ..., vk in that
\* order; BuildStack() returns an empty stack.
C33_BuildStackFirstOnTop ==
    /\ [](stk # NoStack /\ stk.calls = 0 =>
            /\ StackLen(stk.l) = Len(stk.values)
            /\ stk.values = <<>> => stk.l = BuildStack /\ Front(stk.l) = <<>>
            /\ stk.values # <<>> =>
                  /\ Front(stk.l) = <<stk.values[1]>>
                  /\ stk.l[Len(stk.l)] = stk.values[Len(stk.values)])
    /\ [][Called("Pop") =>
            stk'.out.val = IF stk.pops < Len(stk.values)
                           THEN <<stk.values[stk.pops + 1]>>
                           ELSE <<>>]_vars

\* BuildStack(1, 1, 2) has been popped twice: both Pops returned the value
\* given first, and the value given last is what is left
C33_Witness_LastIsLeft ==
    /\ stk # NoStack
    /\ stk.values = <<1, 1, 2>>
    /\ stk.pops = 2
    /\ stk.calls = 2
    /\ stk.out = [op |-> "Pop", val |-> <<1>>]
    /\ stk.l = <<2>>

-----------------------------------------------------------------------------
(* The command pointer *)

\* where the claim of C34 puts the command pointer after the dispatch of
\* the command c in the engine b
NextPosition(b, c) ==
    IF c = CmdEndLoop /\ HasTop(b.loopStack) THEN Get(b.loopStack)
    ELSE IF c = CmdStartLoop /\ b.Data[b.DataPtr] = 0 THEN b.currentLoopEnd + 1
    ELSE b.CmdPtr + 1

\* C34 as stated: the command pointer is not negative at the start of a
\* dispatch step, and every dispatch step, a step on a byte without a
\* handler too, moves it on by exactly 1, but for the two loop jumps.
C34_EveryStepAdvances ==
    [][Iterated => (bf.CmdPtr >= 0 /\ bf'.CmdPtr = NextPosition(bf, cmd'))]_vars

\* C34, amended: with the built-in handlers the command pointer is not
\* negative at the start of a dispatch step; a dispatch step whose handler
\* does not fail, a step on a byte without a handler too, moves it on by
\* exactly 1, but for the two loop jumps; a dispatch step whose handler
\* fails leaves it where it was.
C34_SuccessfulStepAdvances ==
    [][Iterated =>
            /\ bf.CmdPtr >= 0
            /\ ret'.state = "running" => bf'.CmdPtr = NextPosition(bf, cmd')
            /\ ret'.state # "running" => bf'.CmdPtr = bf.CmdPtr]_vars

\* a byte without a handler has moved the pointer to 1, and there `<` has
\* failed at the left edge of the memory
C34_Witness_FailedAfterUnknown ==
    /\ commands = <<CmdUnknown, CmdShiftLeft>>
    /\ cmd = CmdShiftLeft
    /\ ret.state = "error"
    /\ steps = 2
    /\ bf.CmdPtr = 1

-----------------------------------------------------------------------------
(* The writes to the cache *)

\* the iteration of Run's loop that dispatches c in the engine b assigns
\* cmdCache[CmdPtr]: when it makes the cache for a `[`, or inside a loop
WritesCache(b, c) ==
    /\ c \in DOMAIN b.opMap
    /\ \/ c = CmdStartLoop /\ b.cmdCache.nil
       \/ StackLen(b.loopStack) > 0 /\ ~StartCache(b, c).cmdCache.nil

\* the writes to the cache, as pairs of position and byte, of the run on
\* prog from the engine b on, n bytes read, for fuel iterations
RECURSIVE WritesFrom(_, _, _, _, _)
WritesFrom(b, prog, n, log, fuel) ==
    LET hit == CacheHas(b.cmdCache, b.CmdPtr)
    IN  IF fuel = 0 \/ ((~hit) /\ n >= Len(prog))
        THEN {}
        ELSE LET c == IF hit THEN b.cmdCache.m[b.CmdPtr] ELSE prog[n + 1]
                 r == Dispatch(b, c, EnvAt(b, log))
                 w == IF WritesCache(b, c) THEN {<<b.CmdPtr, c>>} ELSE {}
             IN  IF r.err # NoErr
                 THEN w
                 ELSE w \cup WritesFrom(r.bf, prog, IF hit THEN n ELSE n + 1, log, fuel - 1)

\* the writes to the cache this run has made so far
CacheWrites ==
    WritesFrom([New(MemSize) EXCEPT !.CmdPtr = 0, !.DataPtr = 0],
               commands, 0, Replay(bf, ret), steps)

\* C35: within one run all the writes to the cache for one position, in
\* one lifetime of the cache or in several, write the same byte.
C35_OneByteAPosition ==
    \A w1, w2 \in CacheWrites : w1[1] = w2[1] => w1[2] = w2[2]

-----------------------------------------------------------------------------
(* The memory across runs *)

\* C36: the memory is made once by New and Run never clears it: a Run that
\* follows another on the same engine starts from the cells the earlier
\* Run left, and the memory a Run returns on success is the cell array of
\* the engine, as long as New made it.
C36_MemoryOutlivesRun ==
    /\ [](/\ DOMAIN bf.Data = 0 .. MemSize - 1
          /\ ret.state = "ok" => (ret.hasData /\ ret.data = bf.Data))
    /\ [][runs' # runs =>
            /\ bf'.Data = bf.Data
            /\ AtRunStart']_vars

\* a second Run of `+` has returned after a first Run of `+`: the cell
\* holds 2
C36_Witness_SecondRunAddsOn ==
    /\ runs = 2
    /\ ret.state = "ok"
    /\ commands = <<CmdPlus>>
    /\ steps = 2
    /\ bf.Data[0] = 2
    /\ ret.data = bf.Data


====
